---- MODULE Spec2Model ----
\* A model of the QIM video steganography codec of src/main.py:
\*   - the framing codec (_payload_to_bitstream / _bitstream_to_payload),
\*   - the QIM bit codec used inside embed and extract,
\*   - the embed and extract loops, one step per frame read and per block.
\* Bits are modelled as 0/1 (the source uses the characters '0'/'1'), bytes as
\* 0..255.  A DCT coefficient is an integer count of 1/Scale units, so that
\* perturbations smaller than q/4 are representable.
EXTENDS Integers, Sequences, FiniteSets, TLC

\* ------------------------------------------------------------------ constants

\* MARKER = b'VCiph_START'
MARKER == <<86, 67, 105, 112, 104, 95, 83, 84, 65, 82, 84>>

QUANTIZATION_STEP == 4

\* ------------------------------------------------------------------ bounds

\* payloads have at most MaxLen bytes
MaxLen == 1
\* a video has at most MaxFrames frames
MaxFrames == 3
\* coefficient resolution: one unit of the source is Scale model units
Scale == 4
\* at most MaxTrail bits follow a serialized payload in a framing test
MaxTrail == 2

\* ------------------------------------------------------------------ helpers

Min(a, b) == IF a <= b THEN a ELSE b

Abs(x) == IF x < 0 THEN -x ELSE x

Pow2(n) == 2 ^ n

\* the 8 bits of a byte, least significant first (a mutation of the code)
ByteBitsLsbFirst(byte) == [k \in 1..8 |-> (byte \div Pow2(k - 1)) % 2]

\* format(byte, '08b'): the 8 bits of a byte, most significant first
ByteBits(byte) == [k \in 1..8 |-> (byte \div Pow2(8 - k)) % 2]

\* int(s, 2) for a bit string s of any length (most significant bit first)
RECURSIVE BitsToInt(_)
BitsToInt(s) ==
    IF Len(s) = 0 THEN 0
    ELSE 2 * BitsToInt(SubSeq(s, 1, Len(s) - 1)) + s[Len(s)]

\* ''.join(format(byte, '08b') for byte in data)
BytesToBits(data) ==
    [k \in 1..(8 * Len(data)) |-> ByteBits(data[((k - 1) \div 8) + 1])[((k - 1) % 8) + 1]]

\* bytearray(int(bits[i:i+8], 2) for i in range(0, len(bits), 8)):
\* a last chunk shorter than 8 bits still yields a byte
BitsToBytes(bits) ==
    [k \in 1..((Len(bits) + 7) \div 8) |->
        BitsToInt(SubSeq(bits, 8 * (k - 1) + 1, Min(8 * k, Len(bits))))]

\* n.to_bytes(4, byteorder='big')
ToBytes4(n) == [k \in 1..4 |-> (n \div Pow2(8 * (4 - k))) % 256]

\* int.from_bytes(b, byteorder='little') (a mutation of the code)
RECURSIVE FromBytesLittle(_)
FromBytesLittle(b) ==
    IF Len(b) = 0 THEN 0
    ELSE b[1] + 256 * FromBytesLittle(SubSeq(b, 2, Len(b)))

\* int.from_bytes(b, byteorder='big')
RECURSIVE FromBytes(_)
FromBytes(b) ==
    IF Len(b) = 0 THEN 0
    ELSE 256 * FromBytes(SubSeq(b, 1, Len(b) - 1)) + b[Len(b)]

\* Python slice s[lo:hi] over 0-based positions, clamped to the sequence
Slice(s, lo, hi) == SubSeq(s, lo + 1, Min(hi, Len(s)))

marker_len == Len(MARKER)

header_len == marker_len + 4

header_len_bits == (Len(MARKER) + 4) * 8

\* ------------------------------------------------------------------ framing codec

\* _payload_to_bitstream: MARKER, 4-byte big-endian length, payload, as bits
payload_to_bitstream(payload_data) ==
    LET payload_length_bytes == ToBytes4(Len(payload_data))
        header == MARKER \o payload_length_bytes
        full_data == header \o payload_data
    IN  BytesToBits(full_data)

\* the marker comparison of _bitstream_to_payload with the test on the header
\* length left out (a mutation of the code)
ParseNoHeaderCheck(bitstream) ==
    LET byte_array == BitsToBytes(bitstream)
        payload_length == FromBytes(Slice(byte_array, marker_len, header_len))
        payload_data == Slice(byte_array, header_len, header_len + payload_length)
    IN  IF Slice(byte_array, 0, marker_len) # MARKER
        THEN [ok |-> FALSE, error |-> "MarkerMismatch", data |-> <<>>]
        ELSE IF Len(payload_data) # payload_length
        THEN [ok |-> FALSE, error |-> "TruncatedPayload", data |-> <<>>]
        ELSE [ok |-> TRUE, error |-> "none", data |-> payload_data]

\* _bitstream_to_payload with the payload taken one byte too late (a mutation)
ParseShifted(bitstream) ==
    LET byte_array == BitsToBytes(bitstream)
        payload_length == FromBytes(Slice(byte_array, marker_len, header_len))
        payload_data == Slice(byte_array, header_len + 1, header_len + 1 + payload_length)
    IN  IF Len(byte_array) < header_len
        THEN [ok |-> FALSE, error |-> "IncompleteHeader", data |-> <<>>]
        ELSE IF Slice(byte_array, 0, marker_len) # MARKER
        THEN [ok |-> FALSE, error |-> "MarkerMismatch", data |-> <<>>]
        ELSE IF Len(payload_data) # payload_length
        THEN [ok |-> FALSE, error |-> "TruncatedPayload", data |-> <<>>]
        ELSE [ok |-> TRUE, error |-> "none", data |-> payload_data]

\* _bitstream_to_payload: the outcome of the parse; data is what is written to
\* the output file when ok, and nothing is written otherwise
bitstream_to_payload(bitstream) ==
    LET byte_array == BitsToBytes(bitstream)
        extracted_marker == Slice(byte_array, 0, marker_len)
        length_bytes == Slice(byte_array, marker_len, header_len)
        payload_length == FromBytes(length_bytes)
        payload_data == Slice(byte_array, header_len, header_len + payload_length)
    IN  IF Len(byte_array) < header_len
        THEN [ok |-> FALSE, error |-> "IncompleteHeader", data |-> <<>>]
        ELSE IF extracted_marker # MARKER
        THEN [ok |-> FALSE, error |-> "MarkerMismatch", data |-> <<>>]
        ELSE IF Len(payload_data) # payload_length
        THEN [ok |-> FALSE, error |-> "TruncatedPayload", data |-> <<>>]
        ELSE [ok |-> TRUE, error |-> "none", data |-> payload_data]

\* ------------------------------------------------------------------ QIM bit codec

\* the quantization step q in model units
Q == QUANTIZATION_STEP * Scale

\* Python's round(n / d) for d > 0: to the nearest integer, ties to the even one
Round(n, d) ==
    LET f == n \div d
        r == n % d
    IN  IF 2 * r < d THEN f
        ELSE IF 2 * r > d THEN f + 1
        ELSE IF f % 2 = 0 THEN f ELSE f + 1

\* round(coeff / q) * q
NearestZero(coeff) == Round(coeff, Q) * Q

\* the 1-lattice point computed without moving the coefficient by q/2 first (a
\* mutation of the code)
NearestOneNoShift(coeff) == Round(coeff, Q) * Q + (Q \div 2)

\* round((coeff - q/2) / q) * q + q/2
NearestOne(coeff) == Round(coeff - (Q \div 2), Q) * Q + (Q \div 2)

\* embed's replacement of the designated coefficient for one bit
Encode(coeff, bit_to_embed) ==
    IF bit_to_embed = 0 THEN NearestZero(coeff) ELSE NearestOne(coeff)

\* extract's decision with < in place of <= (a mutation of the code)
DecodeStrict(coeff) ==
    IF Abs(coeff - NearestZero(coeff)) < Abs(coeff - NearestOne(coeff)) THEN 0 ELSE 1

\* extract's decision with the two symbols exchanged (a mutation of the code)
DecodeSwapped(coeff) ==
    IF Abs(coeff - NearestZero(coeff)) <= Abs(coeff - NearestOne(coeff)) THEN 1 ELSE 0

\* extract's decision for one coefficient
Decode(coeff) ==
    LET nearest_zero == NearestZero(coeff)
        nearest_one == NearestOne(coeff)
        dist_to_zero == Abs(coeff - nearest_zero)
        dist_to_one == Abs(coeff - nearest_one)
    IN  IF dist_to_zero <= dist_to_one THEN 0 ELSE 1

\* ------------------------------------------------------------------ state

VARIABLES
    \* the inputs of a run: payload file, frame size, number of frames of the video
    payload, width, height, nframes,
    \* embed
    epc, bitstream, cursor, frame_count, bits_embedded, embedding_complete,
    ei, ej, y_channel, writer, embed_report,
    \* the (frame, row, col) of the block each bit was embedded into, in order
    embed_pos,
    \* extract
    xpc, source, frames_read, xi, xj, extracted_bits, total_bits_to_extract,
    extraction_failed, video_ended, marker_errors, parse_called, xresult,
    \* the (frame, row, col) of the block each accumulated bit was decoded from
    extract_pos,
    \* framing codec exercised alone
    fpc, fpayload, fbits, fmods, fresult,
    \* bit codec exercised alone
    qpc, qcoeff, qbit, qnoise, qencoded, qdecoded

inputVars == <<payload, width, height, nframes>>

embedVars == <<epc, bitstream, cursor, frame_count, bits_embedded, embedding_complete,
               ei, ej, y_channel, writer, embed_report, embed_pos>>

extractVars == <<xpc, source, frames_read, xi, xj, extracted_bits, total_bits_to_extract,
                 extraction_failed, video_ended, marker_errors, parse_called, xresult,
                 extract_pos>>

framingVars == <<fpc, fpayload, fbits, fmods, fresult>>

qimVars == <<qpc, qcoeff, qbit, qnoise, qencoded, qdecoded>>

vars == <<inputVars, embedVars, extractVars, framingVars, qimVars>>

\* ------------------------------------------------------------------ inputs

\* the byte values payload files are drawn from
PayloadBytes == {65, 190}

RECURSIVE SeqsUpTo(_, _)
SeqsUpTo(S, n) ==
    IF n = 0 THEN {<<>>}
    ELSE LET shorter == SeqsUpTo(S, n - 1)
         IN  shorter \cup {Append(s, x) : s \in {t \in shorter : Len(t) = n - 1}, x \in S}

\* the payload files of the model: every file of at most MaxLen bytes, and the
\* three bytes "ABC"
Payloads == SeqsUpTo(PayloadBytes, MaxLen) \cup {<<65, 66, 67>>}

\* frame sizes (CAP_PROP_FRAME_WIDTH / CAP_PROP_FRAME_HEIGHT); 4 is smaller than a
\* block, 472 = 59 blocks, 480 = 60, 504 = 63, 512 = 64 blocks per row band
Widths == {472, 480, 504, 512}

Heights == {4, 8, 16}

\* the value of Python's None for total_bits_to_extract
None == 0 - 1

\* len(range(0, n, 8))
RangeLen(n) == (n + 7) \div 8

Rows == RangeLen(height)

Cols == RangeLen(width)

BlocksPerFrame == Rows * Cols

\* the position in a frame's block sequence of the block at y_channel[i:i+8, j:j+8]
BlockIndex(i, j) == (i \div 8) * Cols + (j \div 8) + 1

\* the designated DCT coefficient dct_block[DCT_COORDINATE] of block b of frame f
\* of the cover video, in model units (values on and off both lattices)
CoverCoeff(f, b) == ((7 * (BlocksPerFrame * (f - 1) + b)) % (6 * Q + 1)) - 3 * Q

\* frame f of the cover video as cap.read() returns it: one coefficient per block
CoverFrame(f) == [b \in 1..BlocksPerFrame |-> CoverCoeff(f, b)]

\* the perturbations of a coefficient between Encode and Decode: |e| < q/4
Noise == { e \in (0 - Scale)..Scale : 4 * Abs(e) < Q }

NoResult == [ok |-> FALSE, error |-> "none", data |-> <<>>]

EmbedIdle ==
    /\ epc = "idle" /\ bitstream = <<>> /\ cursor = 0 /\ frame_count = 0
    /\ bits_embedded = 0 /\ embedding_complete = FALSE /\ ei = 0 /\ ej = 0
    /\ y_channel = <<>> /\ writer = <<>> /\ embed_report = "none"
    /\ embed_pos = <<>>

ExtractIdle ==
    /\ xpc = "idle" /\ source = "none" /\ frames_read = 0 /\ xi = 0 /\ xj = 0
    /\ extracted_bits = <<>> /\ total_bits_to_extract = None
    /\ extraction_failed = FALSE /\ video_ended = FALSE /\ marker_errors = 0
    /\ parse_called = FALSE /\ xresult = NoResult
    /\ extract_pos = <<>>

FramingIdle ==
    /\ fpc = "idle" /\ fpayload = <<>> /\ fbits = <<>> /\ fmods = {} /\ fresult = NoResult

QimIdle ==
    /\ qpc = "idle" /\ qcoeff = 0 /\ qbit = 0 /\ qnoise = 0 /\ qencoded = 0 /\ qdecoded = 0

InputsIdle == payload = <<>> /\ width = 0 /\ height = 0 /\ nframes = 0

\* ------------------------------------------------------------------ embed

\* embed, lines 52-64: the video is opened, the payload serialized, the counters reset
InitEmbed ==
    /\ payload \in Payloads
    /\ width \in Widths
    /\ height \in Heights
    /\ nframes \in 0..MaxFrames
    /\ epc = "read"
    /\ bitstream = payload_to_bitstream(payload)
    /\ cursor = 0 /\ frame_count = 0 /\ bits_embedded = 0
    /\ embedding_complete = FALSE /\ ei = 0 /\ ej = 0
    /\ y_channel = <<>> /\ writer = <<>> /\ embed_report = "none"
    /\ embed_pos = <<>>

\* embed, lines 66-71 and 96-105: cap.read(); at the end of the video the report
\* is printed; a frame read after embedding_complete is written as it is
EmbedReadFrame ==
    /\ epc = "read"
    /\ xpc = "idle"
    /\ IF frame_count = nframes
       THEN /\ epc' = "done"
            /\ embed_report' = IF ~embedding_complete THEN "warning" ELSE "complete"
            /\ UNCHANGED <<frame_count, ei, ej, y_channel, writer>>
       ELSE /\ frame_count' = frame_count + 1
            /\ embed_report' = embed_report
            /\ IF ~embedding_complete
               THEN IF BlocksPerFrame > 0
                    THEN /\ y_channel' = CoverFrame(frame_count + 1)
                         /\ ei' = 0 /\ ej' = 0
                         /\ epc' = "block"
                         /\ writer' = writer
                    ELSE /\ writer' = Append(writer, CoverFrame(frame_count + 1))
                         /\ UNCHANGED <<epc, ei, ej, y_channel>>
               ELSE /\ writer' = Append(writer, CoverFrame(frame_count + 1))
                    /\ UNCHANGED <<epc, ei, ej, y_channel>>
    /\ UNCHANGED <<bitstream, cursor, bits_embedded, embedding_complete, embed_pos>>
    /\ UNCHANGED <<inputVars, extractVars, framingVars, qimVars>>

\* lines 76-87 with the slice taken one block too wide, so that the block to the
\* right is rewritten too (a mutation of the code)
ModifyBlockAndNext(y, b, bit) ==
    [k \in 1..Len(y) |-> IF k = b \/ k = b + 1 THEN Encode(y[k], bit) ELSE y[k]]

\* lines 81-84 with the 0 branch taken whatever the bit is (a mutation of the code)
ModifyBlockIgnoreBit(y, b, bit) == [y EXCEPT ![b] = Encode(y[b], 0)]

\* embed, lines 76-87: the designated coefficient of block b of the luminance
\* plane y is replaced by its encoding of bit; no other block is touched
ModifyBlock(y, b, bit) == [y EXCEPT ![b] = Encode(y[b], bit)]

\* embed, lines 72-95: one pass of the inner loop body for the block at (ei, ej),
\* with the loop exits and the write of the frame that follow it
EmbedBlock ==
    /\ epc = "block"
    /\ xpc = "idle"
    /\ IF cursor < Len(bitstream)
       THEN LET bit_to_embed == bitstream[cursor + 1]
                b == BlockIndex(ei, ej)
                modified == ModifyBlock(y_channel, b, bit_to_embed)
            IN  /\ cursor' = cursor + 1
                /\ bits_embedded' = bits_embedded + 1
                /\ y_channel' = modified
                /\ embedding_complete' = embedding_complete
                /\ embed_pos' = Append(embed_pos, <<frame_count, ei, ej>>)
                /\ IF ej + 8 < width
                   THEN /\ ej' = ej + 8
                        /\ UNCHANGED <<ei, epc, writer>>
                   ELSE IF ei + 8 < height
                   THEN /\ ei' = ei + 8 /\ ej' = 0
                        /\ UNCHANGED <<epc, writer>>
                   ELSE /\ writer' = Append(writer, modified)
                        /\ epc' = "read"
                        /\ UNCHANGED <<ei, ej>>
       ELSE \* StopIteration
            /\ embedding_complete' = TRUE
            /\ writer' = Append(writer, y_channel)
            /\ epc' = "read"
            /\ UNCHANGED <<cursor, bits_embedded, y_channel, ei, ej, embed_pos>>
    /\ UNCHANGED <<bitstream, frame_count, embed_report>>
    /\ UNCHANGED <<inputVars, extractVars, framingVars, qimVars>>

\* ------------------------------------------------------------------ extract

\* the number of frames of the video extract reads
VideoFrames == IF source = "stego" THEN Len(writer) ELSE nframes

\* the designated coefficient of block b of frame f of the video extract reads
VideoCoeff(f, b) == IF source = "stego" THEN writer[f][b] ELSE CoverCoeff(f, b)

\* the perturbations of the coefficient extract reads: a stego video comes back
\* through the inverse transform, the clamping and the container
ReadNoise == IF source = "stego" THEN Noise ELSE {0}

\* extract, lines 111-121: the video is opened and the accumulator created. The
\* video is the output of a finished embed, or the cover video that was never
\* embedded into
ExtractStart(src) ==
    /\ xpc = "idle"
    /\ \/ src = "stego" /\ epc = "done"
       \/ src = "cover" /\ epc = "read" /\ frame_count = 0
    /\ xpc' = "read"
    /\ source' = src
    /\ total_bits_to_extract' = None
    /\ extracted_bits' = <<>>
    /\ extraction_failed' = FALSE
    /\ extract_pos' = <<>>
    /\ UNCHANGED <<frames_read, xi, xj, video_ended, marker_errors, parse_called, xresult>>
    /\ UNCHANGED <<inputVars, embedVars, framingVars, qimVars>>

\* extract, lines 123-128 and 163-168: cap.read(); at the end of the video the
\* error is printed, the loop left and, unless extraction_failed, the accumulator
\* handed to _bitstream_to_payload
ExtractReadFrame ==
    /\ xpc = "read"
    /\ IF frames_read = VideoFrames
       THEN /\ video_ended' = TRUE
            /\ xpc' = "done"
            /\ IF ~extraction_failed
               THEN /\ parse_called' = TRUE
                    /\ xresult' = bitstream_to_payload(extracted_bits)
               ELSE UNCHANGED <<parse_called, xresult>>
            /\ UNCHANGED <<frames_read, xi, xj>>
       ELSE /\ frames_read' = frames_read + 1
            /\ IF BlocksPerFrame > 0
               THEN xi' = 0 /\ xj' = 0 /\ xpc' = "block"
               ELSE UNCHANGED <<xi, xj, xpc>>
            /\ UNCHANGED <<video_ended, parse_called, xresult>>
    /\ UNCHANGED <<source, extracted_bits, total_bits_to_extract, extraction_failed,
                   marker_errors, extract_pos>>
    /\ UNCHANGED <<inputVars, embedVars, framingVars, qimVars>>

\* line 140 with the decided bit put in front of the accumulator (a mutation of
\* the code)
PrependBit(bits, bit) == <<bit>> \o bits

\* extract, line 140: extracted_bits.append(bit)
AppendBit(bits, bit) == Append(bits, bit)

\* the block loops of lines 130-131 with the rows inside the columns (a mutation
\* of the code)
ExtractAdvanceColumnMajor(i, j) ==
    IF i + 8 < height THEN <<i + 8, j, TRUE>>
    ELSE IF j + 8 < width THEN <<0, j + 8, TRUE>>
    ELSE <<i, j, FALSE>>

\* extract, lines 130-131: the block after (i, j) in
\* for i in range(0, height, 8): for j in range(0, width, 8), and whether there
\* is one in the frame
ExtractAdvance(i, j) ==
    IF j + 8 < width THEN <<i, j + 8, TRUE>>
    ELSE IF i + 8 < height THEN <<i + 8, 0, TRUE>>
    ELSE <<i, j, FALSE>>

\* extract, lines 130-161: one pass of the inner loop body for the block at
\* (xi, xj) of the current frame, read back with perturbation e, and the loop
\* exits that follow it: the break of line 159 or 151 leaves the column loop,
\* the break of line 161 leaves the row loop, and the frame loop goes on
ExtractBlock(e) ==
    /\ xpc = "block"
    /\ LET coeff == VideoCoeff(frames_read, BlockIndex(xi, xj)) + e
           bits == AppendBit(extracted_bits, Decode(coeff))
           next == ExtractAdvance(xi, xj)
           at_header == total_bits_to_extract = None /\ Len(bits) >= header_len_bits
           header_bytes == BitsToBytes(bits)
           marker_bad == at_header /\ Slice(header_bytes, 0, Len(MARKER)) # MARKER
           payload_len == FromBytes(Slice(header_bytes, Len(MARKER), Len(MARKER) + 4))
           total == IF at_header /\ ~marker_bad
                    THEN header_len_bits + (payload_len * 8)
                    ELSE total_bits_to_extract
           enough == total # None /\ total # 0 /\ Len(bits) >= total
       IN  /\ extracted_bits' = bits
           /\ total_bits_to_extract' = total
           /\ extraction_failed' = (extraction_failed \/ marker_bad)
           /\ marker_errors' = IF marker_bad THEN marker_errors + 1 ELSE marker_errors
           /\ extract_pos' = Append(extract_pos, <<frames_read, xi, xj>>)
           /\ IF marker_bad \/ enough
              THEN xpc' = "read" /\ UNCHANGED <<xi, xj>>
              ELSE IF next[3]
              THEN xi' = next[1] /\ xj' = next[2] /\ xpc' = xpc
              ELSE xpc' = "read" /\ UNCHANGED <<xi, xj>>
    /\ UNCHANGED <<source, frames_read, video_ended, parse_called, xresult>>
    /\ UNCHANGED <<inputVars, embedVars, framingVars, qimVars>>

\* ------------------------------------------------------------------ specification

Init == InitEmbed /\ ExtractIdle /\ FramingIdle /\ QimIdle

Next ==
    \/ EmbedReadFrame
    \/ EmbedBlock
    \/ \E src \in {"stego", "cover"} : ExtractStart(src)
    \/ ExtractReadFrame
    \/ \E e \in ReadNoise : ExtractBlock(e)

Spec == Init /\ [][Next]_vars

\* ------------------------------------------------------------------ the framing codec alone

\* the bit sequences that may follow a serialized payload: up to MaxTrail bits,
\* alone or after one whole byte
TrailingBits ==
    LET few == SeqsUpTo({0, 1}, MaxTrail)
    IN  (few \cup {BytesToBits(<<x>>) \o t : x \in PayloadBytes, t \in few}) \ {<<>>}

\* Serialize: _payload_to_bitstream applied to a payload file
FSerialize(p) ==
    /\ fpc = "idle"
    /\ fpayload' = p
    /\ fbits' = payload_to_bitstream(p)
    /\ fpc' = "built"
    /\ UNCHANGED <<fmods, fresult>>
    /\ UNCHANGED <<inputVars, embedVars, extractVars, qimVars>>

\* the header bits a test inverts: every bit of the marker and the three low
\* bytes of the length (a declared length of 2^24 or more is beyond the model's
\* 32-bit integers)
FlipPositions == (1..(8 * marker_len)) \cup ((8 * marker_len + 9)..header_len_bits)

\* the bitstream reaches the parser with bit k of its header inverted
FFlip(k) ==
    /\ fpc = "built"
    /\ fmods = {}
    /\ k \in FlipPositions
    /\ fbits' = [fbits EXCEPT ![k] = 1 - @]
    /\ fmods' = {"flip"}
    /\ UNCHANGED <<fpc, fpayload, fresult>>
    /\ UNCHANGED <<inputVars, embedVars, extractVars, qimVars>>

\* the bitstream reaches the parser cut to its first n bits
FTruncate(n) ==
    /\ fpc = "built"
    /\ fmods \subseteq {"flip"}
    /\ n \in 0..(Len(fbits) - 1)
    /\ fbits' = SubSeq(fbits, 1, n)
    /\ fmods' = fmods \cup {"cut"}
    /\ UNCHANGED <<fpc, fpayload, fresult>>
    /\ UNCHANGED <<inputVars, embedVars, extractVars, qimVars>>

\* the bitstream reaches the parser followed by the bits t
FTrail(t) ==
    /\ fpc = "built"
    /\ fmods \subseteq {"flip"}
    /\ fbits' = fbits \o t
    /\ fmods' = fmods \cup {"trail"}
    /\ UNCHANGED <<fpc, fpayload, fresult>>
    /\ UNCHANGED <<inputVars, embedVars, extractVars, qimVars>>

\* Parse: _bitstream_to_payload applied to the bit sequence
FParse ==
    /\ fpc = "built"
    /\ fresult' = bitstream_to_payload(fbits)
    /\ fpc' = "parsed"
    /\ UNCHANGED <<fpayload, fbits, fmods>>
    /\ UNCHANGED <<inputVars, embedVars, extractVars, qimVars>>

FramingInit == InputsIdle /\ EmbedIdle /\ ExtractIdle /\ FramingIdle /\ QimIdle

FramingNext ==
    \/ \E p \in Payloads : FSerialize(p)
    \/ \E k \in FlipPositions : FFlip(k)
    \/ \E n \in 0..(header_len_bits + 8 * MaxLen) : FTruncate(n)
    \/ \E t \in TrailingBits : FTrail(t)
    \/ FParse

FramingSpec == FramingInit /\ [][FramingNext]_vars

\* ------------------------------------------------------------------ the bit codec alone

\* the coefficients the bit codec is exercised on, in model units
Coeffs == (0 - 3 * Q)..(3 * Q)

QimInit ==
    /\ InputsIdle /\ EmbedIdle /\ ExtractIdle /\ FramingIdle
    /\ qpc = "start"
    /\ qcoeff \in Coeffs
    /\ qbit \in {0, 1}
    /\ qnoise \in Noise
    /\ qencoded = 0 /\ qdecoded = 0

\* Encode as embed applies it (lines 79-84)
QEncode ==
    /\ qpc = "start"
    /\ qencoded' = Encode(qcoeff, qbit)
    /\ qpc' = "encoded"
    /\ UNCHANGED <<qcoeff, qbit, qnoise, qdecoded>>
    /\ UNCHANGED <<inputVars, embedVars, extractVars, framingVars>>

\* Decode as extract applies it (lines 134-140) to the perturbed coefficient
QDecode ==
    /\ qpc = "encoded"
    /\ qdecoded' = Decode(qencoded + qnoise)
    /\ qpc' = "decoded"
    /\ UNCHANGED <<qcoeff, qbit, qnoise, qencoded>>
    /\ UNCHANGED <<inputVars, embedVars, extractVars, framingVars>>

\* Decode as extract applies it (lines 134-140) to a coefficient as it is found
\* in a frame, on or off the lattices
QDecodeRaw ==
    /\ qpc = "start"
    /\ qdecoded' = Decode(qcoeff)
    /\ qpc' = "raw"
    /\ UNCHANGED <<qcoeff, qbit, qnoise, qencoded>>
    /\ UNCHANGED <<inputVars, embedVars, extractVars, framingVars>>

QimNext == QEncode \/ QDecode \/ QDecodeRaw

QimSpec == QimInit /\ [][QimNext]_vars

\* ------------------------------------------------------------------ claims

\* the bits of MARKER, most significant first
MarkerBits == BytesToBits(MARKER)

\* the carrier capacity of the video: blocks per frame times frame count
Capacity == BlocksPerFrame * nframes

\* the number of bits the payload of the run needs
RequiredBits == header_len_bits + 8 * Len(payload)

\* C1: round trip. When the carrier capacity is at least header_len_bits + 8L
\* and every coefficient is read back less than q/4 away from what Encode wrote,
\* extract of the output of embed writes a payload equal to the embedded one.
C1_RoundTrip ==
    (xpc = "done" /\ source = "stego" /\ Capacity >= RequiredBits)
        => (parse_called /\ xresult.ok /\ xresult.data = payload)

\* C1 witness: a finished round trip of a non-empty payload through a carrier
\* whose capacity is exactly the number of bits required
C1_Witness ==
    /\ xpc = "done" /\ source = "stego"
    /\ Capacity = RequiredBits
    /\ payload # <<>>
    /\ xresult.ok /\ xresult.data = payload

\* C2: early stop. Once required_bits is set and the accumulator holds that many
\* bits, no step of extract reads a further frame or appends a further bit.
C2_EarlyStop ==
    [][(total_bits_to_extract # None /\ Len(extracted_bits) >= total_bits_to_extract)
        => (extracted_bits' = extracted_bits /\ frames_read' = frames_read)]_vars

\* C3: stream truncation. When the video ends with fewer bits accumulated than
\* required_bits (or than header_len_bits, required_bits never set), extraction
\* fails and writes no payload.
C3_TruncatedFails ==
    (/\ xpc = "done"
     /\ \/ total_bits_to_extract = None /\ Len(extracted_bits) < header_len_bits
        \/ total_bits_to_extract # None /\ Len(extracted_bits) < total_bits_to_extract)
        => ~xresult.ok

\* C4: marker mismatch. After the marker failed to validate, no step of extract
\* reads a further frame, decodes a further block or examines the header again.
C4_MismatchStops ==
    [][extraction_failed
        => (/\ extracted_bits' = extracted_bits
            /\ frames_read' = frames_read
            /\ marker_errors' = marker_errors)]_vars

\* C5: pass-through. In the output of embed every block after the first N in the
\* global order (N the bitstream length) carries the coefficient of the input.
C5_PassThrough ==
    \A f \in 1..Len(writer) : \A b \in 1..BlocksPerFrame :
        (BlocksPerFrame * (f - 1) + b > Len(bitstream)) => writer[f][b] = CoverCoeff(f, b)

\* C5 witness: embed has ended, the cursor was exhausted exactly on the last
\* block of the last but one frame, and the last frame is the input frame
C5_Witness ==
    /\ epc = "done"
    /\ nframes > 1
    /\ BlocksPerFrame * (nframes - 1) = Len(bitstream)
    /\ bits_embedded = Len(bitstream)
    /\ Len(writer) = nframes
    /\ writer[nframes] = CoverFrame(nframes)
    /\ writer[1] # CoverFrame(1)

\* C6: capacity exhaustion. A bitstream longer than
\* 8 * floor(H/8) * floor(W/8) * frame_count ends embed with the partial-embedding
\* warning, bits_embedded < bits_required, and every input frame written.
C6_CapacityExhaustion ==
    (epc = "done" /\ Len(bitstream) > 8 * (height \div 8) * (width \div 8) * nframes)
        => (/\ embed_report = "warning"
            /\ bits_embedded < Len(bitstream)
            /\ Len(writer) = nframes)

\* the first len(MARKER)*8 bits of the parsed sequence are there and differ from MARKER
MarkerPrefixDiffers ==
    Len(fbits) >= 8 * marker_len /\ SubSeq(fbits, 1, 8 * marker_len) # MarkerBits

\* C7 as stated: marker rejection. Every parsed bit sequence whose first
\* len(MARKER)*8 bits differ from MARKER fails with the marker-mismatch error,
\* sequences shorter than the full header included.
C7_MarkerRejectionAnyLength ==
    (fpc = "parsed" /\ MarkerPrefixDiffers) => fresult.error = "MarkerMismatch"

\* C7 amended: a parsed bit sequence of more than 8*(len(MARKER)+3) bits whose
\* first len(MARKER)*8 bits differ from MARKER fails with the marker-mismatch
\* error and writes nothing; a sequence of at most 8*(len(MARKER)+3) bits fails
\* with the incomplete-header error, whatever its first bits are.
C7_MarkerRejection ==
    fpc = "parsed" =>
        /\ (Len(fbits) > 8 * (header_len - 1) /\ MarkerPrefixDiffers)
              => (~fresult.ok /\ fresult.error = "MarkerMismatch")
        /\ Len(fbits) <= 8 * (header_len - 1)
              => (~fresult.ok /\ fresult.error = "IncompleteHeader")

\* C7 witness: a sequence with an inverted marker bit, cut inside the last byte
\* of the header, was parsed and rejected for its marker
C7_Witness ==
    /\ fpc = "parsed"
    /\ fmods = {"flip", "cut"}
    /\ MarkerPrefixDiffers
    /\ Len(fbits) > 8 * (header_len - 1) /\ Len(fbits) < header_len_bits
    /\ fresult.error = "MarkerMismatch"

\* C8: truncation detection. A parsed bitstream that starts with MARKER and a
\* 4-byte length L and has fewer than header_len_bits + 8L bits fails with the
\* truncated-payload error and writes no payload.
C8_TruncationDetected ==
    (/\ fpc = "parsed"
     /\ Len(fbits) >= header_len_bits
     /\ SubSeq(fbits, 1, 8 * marker_len) = MarkerBits
     /\ Len(fbits) < header_len_bits
                       + 8 * BitsToInt(SubSeq(fbits, 8 * marker_len + 1, header_len_bits)))
        => (~fresult.ok /\ fresult.error = "TruncatedPayload")

\* C9: framing round trip. Parse of Serialize(p) followed by any trailing bits
\* succeeds and returns exactly p.
C9_FramingRoundTrip ==
    (fpc = "parsed" /\ fmods \subseteq {"trail"})
        => (fresult.ok /\ fresult.error = "none" /\ fresult.data = fpayload)

\* C9 witness: a non-empty payload was serialized, followed by trailing bits
\* that do not fill a byte, parsed, and came back
C9_Witness ==
    /\ fpc = "parsed"
    /\ fmods = {"trail"}
    /\ fpayload # <<>>
    /\ Len(fbits) % 8 # 0
    /\ fresult.ok /\ fresult.data = fpayload

\* C10: decode stability and noise tolerance. For every coefficient c0, bit b
\* and perturbation e with |e| < q/4, Decode(Encode(c0, b) + e) = b.
C10_NoiseTolerance == qpc = "decoded" => qdecoded = qbit

\* C10 witness: a coefficient off both lattices was encoded with bit 1, read
\* back with a non-zero perturbation and decoded to 1
C10_Witness ==
    /\ qpc = "decoded"
    /\ qbit = 1 /\ qnoise # 0
    /\ qencoded # qcoeff
    /\ qdecoded = 1

\* the distance from c to the nearest point of the lattice of the multiples of q
\* moved by off
LatticeDist(c, off) ==
    LET ds == { Abs(c - (k * Q + off)) : k \in (0 - 4)..4 }
    IN  CHOOSE d \in ds : \A d2 \in ds : d <= d2

\* c is as far from the 0-lattice as from the 1-lattice
Equidistant(c) == LatticeDist(c, 0) = LatticeDist(c, Q \div 2)

\* C11: tie-break. Every coefficient whose distance to the nearest multiple of q
\* equals its distance to the nearest multiple of q moved by q/2 decodes to 0.
C11_TieBreak == (qpc = "raw" /\ Equidistant(qcoeff)) => qdecoded = 0

\* C11 witness: a negative coefficient at the same distance from both lattices
\* was decoded, to 0
C11_Witness ==
    /\ qpc = "raw"
    /\ qcoeff < 0
    /\ Equidistant(qcoeff)
    /\ qdecoded = 0

\* the length field of the header in the accumulator, read as a big-endian number
DeclaredLength ==
    LET field == BitsToBytes(SubSeq(extracted_bits, 8 * Len(MARKER) + 1, 8 * (Len(MARKER) + 4)))
    IN  field[1] * 16777216 + field[2] * 65536 + field[3] * 256 + field[4]

\* what C12 says of required_bits in a state of extract
HeaderDetected ==
    /\ Len(extracted_bits) < 8 * (Len(MARKER) + 4) => total_bits_to_extract = None
    /\ (Len(extracted_bits) >= 8 * (Len(MARKER) + 4) /\ ~extraction_failed)
          => total_bits_to_extract = 8 * (Len(MARKER) + 4) + 8 * DeclaredLength
    /\ (source = "stego" /\ payload = <<65, 66, 67>> /\ Len(extracted_bits) >= 120)
          => (Len(MARKER) = 11 /\ total_bits_to_extract = 144)

\* C12: inline header detection. required_bits is unset while the accumulator
\* holds fewer than header_len_bits bits; from the step that appends the
\* header_len_bits-th bit with a valid marker on it is header_len_bits + 8L, L the
\* big-endian length of the header, and no step changes it once it is set; with
\* the 3-byte payload "ABC" it is 144 from the 120th bit on.
C12_HeaderDetection ==
    [][/\ HeaderDetected'
       /\ total_bits_to_extract # None => total_bits_to_extract' = total_bits_to_extract]_vars

\* C12 witness: the 120th bit of the stream that carries "ABC" has just been
\* appended and required_bits is 144
C12_Witness ==
    /\ source = "stego"
    /\ payload = <<65, 66, 67>>
    /\ Len(extracted_bits) = 120
    /\ total_bits_to_extract = 144

\* C13: the accumulator never exceeds required_bits. In every state in which
\* required_bits is set the accumulator holds at most required_bits bits, so
\* that Parse is handed exactly required_bits bits on success.
C13_AccumulatorBounded ==
    total_bits_to_extract # None => Len(extracted_bits) <= total_bits_to_extract

\* the k-th block of a video in the order frame by frame, row band by row band,
\* left to right, as (frame, row, col)
CanonPos(k) ==
    <<((k - 1) \div BlocksPerFrame) + 1,
      8 * (((k - 1) % BlocksPerFrame) \div Cols),
      8 * (((k - 1) % BlocksPerFrame) % Cols)>>

\* bit k of the accumulator belongs to the scan for the header and the payload
InScan(k) ==
    k <= header_len_bits \/ (total_bits_to_extract # None /\ k <= total_bits_to_extract)

\* C14: alignment. embed writes bit k into the k-th block of the order frame by
\* frame, row by row (step 8 while row < H), column by column (step 8 while
\* col < W); extract decodes bit k of its accumulator, for k up to
\* required_bits, from the k-th block of the same order; so the two blocks are
\* the same whenever extract reads the output of embed.
C14_Alignment ==
    /\ \A k \in 1..Len(embed_pos) : embed_pos[k] = CanonPos(k)
    /\ \A k \in 1..Len(extract_pos) : InScan(k) => extract_pos[k] = CanonPos(k)
    /\ source = "stego" =>
          \A k \in 1..Min(Len(extract_pos), Len(embed_pos)) :
              InScan(k) => extract_pos[k] = embed_pos[k]

\* C14 witness: extract of the output of embed has decoded a bit from a block of
\* the second row band of a frame, the block embed wrote that bit into
C14_Witness ==
    /\ source = "stego"
    /\ \E k \in 1..Min(Len(extract_pos), Len(embed_pos)) :
          /\ InScan(k)
          /\ extract_pos[k][2] = 8 /\ extract_pos[k][3] > 0
          /\ extract_pos[k] = embed_pos[k]

\* C15: the accumulator is append-only. Every step of extract leaves the
\* accumulator as it is or appends one bit to it, and every step that decodes a
\* block appends exactly one bit.
C15_AppendOnly ==
    [][/\ \/ extracted_bits' = extracted_bits
          \/ \E bit \in {0, 1} : extracted_bits' = Append(extracted_bits, bit)
       /\ extract_pos' # extract_pos =>
             /\ Len(extract_pos') = Len(extract_pos) + 1
             /\ Len(extracted_bits') = Len(extracted_bits) + 1]_vars

\* C15 witness: extract is between two blocks with more bits accumulated than
\* the header has, a 0 and a 1 among them, one per decoded block
C15_Witness ==
    /\ xpc = "block"
    /\ Len(extracted_bits) > header_len_bits
    /\ Len(extract_pos) = Len(extracted_bits)
    /\ extracted_bits[1] # extracted_bits[2]

\* C17: the partial-embedding warning is reported exactly when fewer bits were
\* embedded than the bitstream has; when every bit was embedded by the end of
\* the video, completion is reported.
C17_WarningOnlyWhenPartial ==
    epc = "done" =>
        /\ embed_report = "warning" <=> bits_embedded < Len(bitstream)
        /\ embed_report = "complete" <=> bits_embedded = Len(bitstream)

\* the video ended before the bits extract needs were accumulated
EndedEarly ==
    \/ total_bits_to_extract = None /\ Len(extracted_bits) < header_len_bits
    \/ total_bits_to_extract # None /\ Len(extracted_bits) < total_bits_to_extract

\* C18: the 'video ended' error is reported only when the video ended early; a
\* run that writes the payload reports no error; every run ends with exactly
\* one of payload written, marker mismatch and stream truncated.
C18_OneOutcome ==
    xpc = "done" =>
        /\ video_ended => EndedEarly
        /\ xresult.ok => ~video_ended
        /\ \/ xresult.ok /\ ~extraction_failed /\ ~video_ended
           \/ ~xresult.ok /\ extraction_failed /\ ~video_ended
           \/ ~xresult.ok /\ ~extraction_failed /\ video_ended

\* the frames embed has produced so far: the frames written and, inside the
\* block loops, the luminance plane being rewritten
OutFrames == IF epc = "block" THEN Append(writer, y_channel) ELSE writer

\* C19: embed's counters. In every state of embed bits_embedded is the number of
\* bits taken from the bitstream and the number of blocks rewritten; the k-th
\* block of the global order carries bit k of the bitstream for k up to
\* bits_embedded, and the blocks after it are as in the input; when embed ends
\* bits_embedded = min(len(bitstream), blocks per frame * frame_count).
C19_BitsEmbedded ==
    /\ bits_embedded = cursor
    /\ Len(embed_pos) = bits_embedded
    /\ \A f \in 1..Len(OutFrames) : \A b \in 1..BlocksPerFrame :
          LET k == BlocksPerFrame * (f - 1) + b
          IN  IF k <= bits_embedded
              THEN Decode(OutFrames[f][b]) = bitstream[k]
              ELSE OutFrames[f][b] = CoverCoeff(f, b)
    /\ epc = "done" =>
          bits_embedded = Min(Len(bitstream), BlocksPerFrame * frame_count)

\* C19 witness: embed has ended on a video of several frames too small for the
\* bitstream, with one bit in each of its blocks
C19_Witness ==
    /\ epc = "done"
    /\ frame_count > 1
    /\ bits_embedded = BlocksPerFrame * frame_count
    /\ bits_embedded < Len(bitstream)
    /\ Len(writer) = frame_count

\* the bytes Serialize is to emit for the payload p: MARKER, the length of p as
\* 4 bytes, most significant first, and p
WireBytes(p) ==
    MARKER \o <<Len(p) \div 16777216, (Len(p) \div 65536) % 256,
                (Len(p) \div 256) % 256, Len(p) % 256>> \o p

\* C16: Serialize. The bitstream of a payload of L bytes has
\* (len(MARKER) + 4 + L) * 8 bits, and its bits are those of MARKER, of L as 4
\* bytes big-endian and of the payload, the most significant bit of each byte
\* first.
C16_Serialize ==
    (fpc = "built" /\ fmods = {}) =>
        /\ Len(fbits) = (Len(MARKER) + 4 + Len(fpayload)) * 8
        /\ \A m \in 1..Len(WireBytes(fpayload)) : \A i \in 1..8 :
              fbits[8 * (m - 1) + i] = (WireBytes(fpayload)[m] \div (2 ^ (8 - i))) % 2

\* C16 witness: the payload "ABC" was serialized into 144 bits
C16_Witness ==
    /\ fpc = "built" /\ fmods = {}
    /\ fpayload = <<65, 66, 67>>
    /\ Len(fbits) = 144

====
